---- MODULE Spec2Model ----
(***************************************************************************)
(* Web-Sage: URL content extraction with a fallback cascade                *)
(* (websage/utils/document_processing.py, websage/extractors/*.py) and the *)
(* Streamlit session built on it (app.py, websage/web/components.py).      *)
(*                                                                         *)
(* Strings are sequences of one-character strings, so that strip(),        *)
(* startswith(), split() and join() are computed character by character.   *)
(*                                                                         *)
(* Two uses of the program are explored: process_urls called once as a     *)
(* library function on any list of up to MaxUrls entries, and a session of *)
(* the Streamlit page with up to MaxRequests extraction requests.          *)
(***************************************************************************)
EXTENDS Integers, Sequences, FiniteSets, TLC

(***************************************************************************)
(* Bounds of the exploration.                                              *)
(***************************************************************************)
\* longest list handed directly to process_urls
MaxUrls == 2
\* extraction requests made in one Streamlit session
MaxRequests == 2

(***************************************************************************)
(* Program constants.                                                      *)
(***************************************************************************)
\* minimum length of usable content
MinContentLen == 10

(***************************************************************************)
(* String literals of the program, and the strings the environment         *)
(* supplies (typed entries, fetched pages, exception messages).            *)
(***************************************************************************)
ErrorPrefix ==
    <<"E", "r", "r", "o", "r">>
HttpScheme ==
    <<"h", "t", "t", "p", ":", "/", "/">>
HttpsScheme ==
    <<"h", "t", "t", "p", "s", ":", "/", "/">>
JoinSep ==
    <<",", " ">>
MsgFrom ==
    <<"E", "r", "r", "o", "r", " ", "e", "x", "t", "r", "a", "c", "t", "i", "n", "g", " ", "c", "o", "n", "t", "e", "n", "t", " ", "f", "r", "o", "m", " ">>
MsgFromUrls ==
    <<"E", "r", "r", "o", "r", " ", "e", "x", "t", "r", "a", "c", "t", "i", "n", "g", " ", "c", "o", "n", "t", "e", "n", "t", " ", "f", "r", "o", "m", " ", "U", "R", "L", "s", ":", " ">>
MsgEmpty ==
    <<":", " ", "C", "o", "n", "t", "e", "n", "t", " ", "w", "a", "s", " ", "e", "m", "p", "t", "y", " ", "o", "r", " ", "t", "o", "o", " ", "s", "h", "o", "r", "t">>
MsgNoContent ==
    <<"N", "o", " ", "c", "o", "n", "t", "e", "n", "t", " ", "e", "x", "t", "r", "a", "c", "t", "e", "d">>
MsgInsufficient ==
    <<"A", "l", "l", " ", "d", "o", "c", "u", "m", "e", "n", "t", "s", " ", "h", "a", "d", " ", "i", "n", "s", "u", "f", "f", "i", "c", "i", "e", "n", "t", " ", "c", "o", "n", "t", "e", "n", "t">>
MsgColon ==
    <<":", " ">>
ErrNetwork ==
    <<"t", "i", "m", "e", "d", " ", "o", "u", "t">>
ErrStatus ==
    <<"4", "0", "4", " ", "C", "l", "i", "e", "n", "t", " ", "E", "r", "r", "o", "r">>
EntryBlank ==
    <<" ", " ">>
EntryBare ==
    <<"a", ".", "i", "o">>
EntryPadded ==
    <<" ", "b", ".", "i", "o", " ">>
EntryHttps ==
    <<"h", "t", "t", "p", "s", ":", "/", "/", "b", ".", "i", "o">>
EntryHttp ==
    <<"h", "t", "t", "p", ":", "/", "/", "a", ".", "i", "o">>
PagePadded ==
    <<" ", "s", "h", "o", "r", "t", " ", "t", "x", "t", " ", " ">>
PageGood ==
    <<"H", "e", "l", "l", "o", " ", "p", "a", "g", "e">>
PageErrorText ==
    <<"E", "r", "r", "o", "r", " ", "4", "0", "4", " ", "b", "o", "d", "y">>
SoupEmpty ==
    <<>>
SoupGood ==
    <<" ", " ", "H", "e", "l", "l", "o", " ", " ", "w", "e", "b", " ", "\n", "\n", " ", "p", "a", "g", "e", " ", "t", "x", "t", " ">>
SoupShort ==
    <<" ", "h", "i", " ", "\n", " ", " ", "y", "o", " ", " ">>
SoupErrorText ==
    <<"E", "r", "r", "o", "r", ":", " ", " ", "4", "0", "4", " ", "\n", " ", "g", "o", "n", "e">>
MsgEmptyContent ==
    <<"E", "m", "p", "t", "y", " ", "c", "o", "n", "t", "e", "n", "t">>
MsgInsufficientContent ==
    <<"I", "n", "s", "u", "f", "f", "i", "c", "i", "e", "n", "t", " ", "c", "o", "n", "t", "e", "n", "t">>
TextTwoLines ==
    <<"a", ".", "i", "o", "\n", " ", "b", ".", "i", "o", " ", "\n">>

Whitespace == {" ", "\n", "\t"}
NL == <<"\n">>
TwoSpaces == <<" ", " ">>

(***************************************************************************)
(* Python string methods.                                                  *)
(***************************************************************************)
\* s.startswith(p)
StartsWith(s, p) ==
    Len(s) >= Len(p) /\ SubSeq(s, 1, Len(p)) = p

RECURSIVE LStrip(_)
LStrip(s) ==
    IF s # <<>> /\ Head(s) \in Whitespace THEN LStrip(Tail(s)) ELSE s

RECURSIVE RStrip(_)
RStrip(s) ==
    IF s # <<>> /\ s[Len(s)] \in Whitespace
    THEN RStrip(SubSeq(s, 1, Len(s) - 1))
    ELSE s

\* s.strip()
Strip(s) == RStrip(LStrip(s))

\* positions at which sep occurs in s
Occurrences(s, sep) ==
    {i \in 1..(Len(s) - Len(sep) + 1) : SubSeq(s, i, i + Len(sep) - 1) = sep}

\* s.split(sep)
RECURSIVE Split(_, _)
Split(s, sep) ==
    IF Occurrences(s, sep) = {}
    THEN <<s>>
    ELSE LET i == CHOOSE k \in Occurrences(s, sep) :
                      \A j \in Occurrences(s, sep) : k <= j
         IN  <<SubSeq(s, 1, i - 1)>> \o Split(SubSeq(s, i + Len(sep), Len(s)), sep)

\* s.splitlines()
SplitLines(s) ==
    IF s = <<>>
    THEN <<>>
    ELSE LET parts == Split(s, NL)
         IN  IF parts[Len(parts)] = <<>>
             THEN SubSeq(parts, 1, Len(parts) - 1)
             ELSE parts

\* sep.join(parts)
RECURSIVE Join(_, _)
Join(parts, sep) ==
    IF parts = <<>> THEN <<>>
    ELSE IF Len(parts) = 1 THEN parts[1]
    ELSE parts[1] \o sep \o Join(Tail(parts), sep)

\* concatenation of a list of lists
RECURSIVE Flatten(_)
Flatten(xss) ==
    IF xss = <<>> THEN <<>> ELSE Head(xss) \o Flatten(Tail(xss))

\* [x for x in xs if x]
RECURSIVE NonEmpty(_)
NonEmpty(xs) ==
    IF xs = <<>> THEN <<>>
    ELSE IF Head(xs) # <<>> THEN <<Head(xs)>> \o NonEmpty(Tail(xs))
    ELSE NonEmpty(Tail(xs))

\* content.startswith("Error")
IsError(content) == StartsWith(content, ErrorPrefix)

(***************************************************************************)
(* Python dict, insertion ordered: a sequence of key/value pairs with      *)
(* distinct keys.                                                          *)
(***************************************************************************)
EmptyDict == <<>>

DictKeys(d) == [i \in 1..Len(d) |-> d[i].k]

DictKeySet(d) == {d[i].k : i \in 1..Len(d)}

DictGet(d, key) == d[CHOOSE i \in 1..Len(d) : d[i].k = key].v

\* d[key] = value
DictSet(d, key, value) ==
    IF key \in DictKeySet(d)
    THEN [i \in 1..Len(d) |-> IF d[i].k = key THEN [k |-> key, v |-> value] ELSE d[i]]
    ELSE Append(d, [k |-> key, v |-> value])

(***************************************************************************)
(* langchain Document.                                                     *)
(***************************************************************************)
Document(page_content, source) ==
    [page_content |-> page_content, metadata |-> [source |-> source]]

ErrorDocument(page_content, source, error) ==
    [page_content |-> page_content,
     metadata |-> [source |-> source, error |-> error]]

(***************************************************************************)
(* What the network can answer.                                            *)
(***************************************************************************)
\* text of a page after Html2TextTransformer, or as loaded by WebBaseLoader
PageTexts == {PagePadded, PageGood, PageErrorText}

\* soup.get_text() of a page fetched by requests
SoupTexts == {SoupEmpty, SoupShort, SoupGood, SoupErrorText}

\* str(e) of the exception requests.get or raise_for_status raises; a failed
\* request and a non-success status take the same except clause and differ
\* in this text only
FetchErrors == {ErrStatus}

\* str(e) of the exception a langchain loader raises
LoaderErrors == {ErrNetwork}

\* requests.get(url) followed by raise_for_status() and BeautifulSoup
Responses ==
    [kind : {"error"}, msg : FetchErrors] \cup [kind : {"ok"}, text : SoupTexts]

\* WebBaseLoader(url).load()
WebBaseLoads(url) ==
    [kind : {"error"}, msg : LoaderErrors]
    \cup {[kind |-> "docs", docs |-> <<>>]}
    \cup {[kind |-> "docs", docs |-> <<Document(t, url)>>] : t \in PageTexts}

\* the documents AsyncHtmlLoader and Html2TextTransformer yield for a choice
\* pick of one page text, or no document, per URL
NoPage == <<"<none>">>

RECURSIVE PickedDocs(_, _, _)
PickedDocs(urls, pick, i) ==
    IF i > Len(urls) THEN <<>>
    ELSE (IF pick[i] = NoPage THEN <<>> ELSE <<Document(pick[i], urls[i])>>)
         \o PickedDocs(urls, pick, i + 1)

\* AsyncHtmlLoader(urls).load() followed by transform_documents()
AsyncHtmlLoads(urls) ==
    [kind : {"error"}, msg : LoaderErrors]
    \cup {[kind |-> "docs", docs |-> PickedDocs(urls, pick, 1)] :
            pick \in [1..Len(urls) -> PageTexts \cup {NoPage}]}

(***************************************************************************)
(* websage/extractors/beautifulsoup_extractor.py                           *)
(***************************************************************************)
\* [f(x) for x in xs] with f = strip
StripEach(xs) == [i \in 1..Len(xs) |-> Strip(xs[i])]

\* lines 35-37: strip every line, split it on double spaces, strip every
\* phrase, join the non-empty ones with newlines
CleanText(text) ==
    LET lines  == StripEach(SplitLines(text))
        chunks == Flatten([i \in 1..Len(lines) |->
                              StripEach(Split(lines[i], TwoSpaces))])
    IN  Join(NonEmpty(chunks), NL)

\* len(text.strip()) < 10
TooShort(text) == Len(Strip(text)) < MinContentLen

\* variant: the length of the cleaned text is not checked
extract_content_from_url_NoLengthCheck(url, response) ==
    IF response.kind = "error"
    THEN MsgFrom \o url \o MsgColon \o response.msg
    ELSE LET text == CleanText(response.text)
         IN  IF text = <<>>
             THEN MsgFrom \o url \o MsgEmpty
             ELSE text

extract_content_from_url(url, response) ==
    IF response.kind = "error"
    THEN MsgFrom \o url \o MsgColon \o response.msg
    ELSE LET text == CleanText(response.text)
         IN  IF text = <<>> \/ TooShort(text)
             THEN MsgFrom \o url \o MsgEmpty
             ELSE text

(***************************************************************************)
(* websage/extractors/langchain_extractor.py                               *)
(***************************************************************************)
extract_content_with_langchain(url, loaded) ==
    IF loaded.kind = "error"
    THEN <<ErrorDocument(MsgFrom \o url \o MsgColon \o loaded.msg, url, loaded.msg)>>
    ELSE IF loaded.docs = <<>> \/ TooShort(loaded.docs[1].page_content)
    THEN <<ErrorDocument(MsgFrom \o url \o MsgEmpty, url, MsgEmptyContent)>>
    ELSE loaded.docs

\* variant: the length is taken without strip()
RECURSIVE ValidDocs_NoStrip(_)
ValidDocs_NoStrip(docs) ==
    IF docs = <<>> THEN <<>>
    ELSE IF Len(Head(docs).page_content) >= MinContentLen
    THEN <<Head(docs)>> \o ValidDocs_NoStrip(Tail(docs))
    ELSE ValidDocs_NoStrip(Tail(docs))

\* lines 76-81: keep the documents with at least 10 characters of content
RECURSIVE ValidDocs(_)
ValidDocs(docs) ==
    IF docs = <<>> THEN <<>>
    ELSE IF Len(Strip(Head(docs).page_content)) >= MinContentLen
    THEN <<Head(docs)>> \o ValidDocs(Tail(docs))
    ELSE ValidDocs(Tail(docs))

extract_content_with_html2text(urls, loaded) ==
    IF loaded.kind = "error"
    THEN <<ErrorDocument(MsgFromUrls \o loaded.msg,
                         Join(urls, JoinSep), loaded.msg)>>
    ELSE IF loaded.docs = <<>>
    THEN <<ErrorDocument(MsgFromUrls \o MsgNoContent,
                         Join(urls, JoinSep), MsgNoContent)>>
    ELSE IF ValidDocs(loaded.docs) = <<>>
    THEN <<ErrorDocument(MsgFromUrls \o MsgInsufficient,
                         Join(urls, JoinSep), MsgInsufficientContent)>>
    ELSE ValidDocs(loaded.docs)

(***************************************************************************)
(* websage/utils/document_processing.py: process_urls                      *)
(***************************************************************************)
\* variant: the entries are not stripped
RECURSIVE CleanUrls_NoStrip(_)
CleanUrls_NoStrip(urls) ==
    IF urls = <<>> THEN <<>>
    ELSE LET url == Head(urls)
         IN  (IF url = <<>> THEN <<>>
              ELSE IF StartsWith(url, HttpScheme) \/ StartsWith(url, HttpsScheme)
              THEN <<url>>
              ELSE <<HttpsScheme \o url>>)
             \o CleanUrls_NoStrip(Tail(urls))

\* lines 25-31
RECURSIVE CleanUrls(_)
CleanUrls(urls) ==
    IF urls = <<>> THEN <<>>
    ELSE LET url == Strip(Head(urls))
         IN  (IF url = <<>> THEN <<>>
              ELSE IF StartsWith(url, HttpScheme) \/ StartsWith(url, HttpsScheme)
              THEN <<url>>
              ELSE <<HttpsScheme \o url>>)
             \o CleanUrls(Tail(urls))

\* variant: the strategy flag is ignored
UseLangchainPath_IgnoresFlag(use_langchain, clean_urls) ==
    clean_urls # <<>>

\* line 36
UseLangchainPath(use_langchain, clean_urls) ==
    use_langchain /\ clean_urls # <<>>

\* variant: the content is not checked for the error prefix
BatchDocUsable_IgnoresError(doc) ==
    doc.metadata.source # <<>>

\* line 45
BatchDocUsable(doc) ==
    doc.metadata.source # <<>> /\ ~IsError(doc.page_content)

\* lines 42-49
RECURSIVE StoreBatchDocs(_, _)
StoreBatchDocs(contents, docs) ==
    IF docs = <<>> THEN contents
    ELSE StoreBatchDocs(
             IF BatchDocUsable(Head(docs))
             THEN DictSet(contents, Head(docs).metadata.source, Head(docs).page_content)
             ELSE contents,
             Tail(docs))

\* variant: the single-URL pass runs whatever the batch step yielded
AfterBatch_AlwaysRetries(valid) == "single"

\* variant: the single-URL pass is skipped
AfterBatch_SkipsSinglePass(valid) == IF valid THEN "final" ELSE "fallback"

\* line 52: where the cascade goes after the batch step
AfterBatch(valid) == IF valid THEN "final" ELSE "single"

\* line 57
SingleDocsUsable(docs) ==
    docs # <<>> /\ ~IsError(docs[1].page_content)

\* line 62: an exception of one single-URL extraction is logged and the loop
\* goes on
OnSingleRaise == "single"

\* line 66: where the cascade goes after the single-URL pass
AfterSingle(valid) == IF valid THEN "final" ELSE "fallback"

\* variant: no handler around the structure-preserving steps
OnBatchRaise_Unhandled == "raised"

\* line 76: an exception in the structure-preserving steps sends every URL to
\* the simple extractor
OnBatchRaise == "except"

\* lines 88-93
RECURSIVE ValidContents(_)
ValidContents(contents) ==
    IF contents = <<>> THEN <<>>
    ELSE IF ~IsError(Head(contents).v)
    THEN <<Head(contents)>> \o ValidContents(Tail(contents))
    ELSE ValidContents(Tail(contents))

\* line 100
ReturnValue(contents) == contents

\* variant: a document is built for every entry
create_documents_from_contents_NoFilter(contents) ==
    [i \in 1..Len(contents) |-> Document(contents[i].v, contents[i].k)]

\* lines 102-122
RECURSIVE create_documents_from_contents(_)
create_documents_from_contents(contents) ==
    IF contents = <<>> THEN <<>>
    ELSE (IF ~IsError(Head(contents).v)
          THEN <<Document(Head(contents).v, Head(contents).k)>>
          ELSE <<>>)
         \o create_documents_from_contents(Tail(contents))

(***************************************************************************)
(* app.py: credentials read from the environment at start-up; a field is   *)
(* TRUE when the variable is set to a non-empty value.                     *)
(***************************************************************************)
AllConfigs ==
    [openai_api_key : BOOLEAN, azure_api_key : BOOLEAN,
     azure_endpoint : BOOLEAN, azure_deployment : BOOLEAN,
     hf_token : BOOLEAN]

\* number of Azure values that are set
AzureValues(c) ==
    (IF c.azure_api_key THEN 1 ELSE 0) + (IF c.azure_endpoint THEN 1 ELSE 0)
    + (IF c.azure_deployment THEN 1 ELSE 0)

\* the configurations the application is started with: Azure configured
\* completely, with one value missing, or not at all, each with and without
\* the OpenAI key; and the OpenAI key alone without the HuggingFace token
Configs ==
    {c \in AllConfigs :
        /\ AzureValues(c) \in {0, 2, 3}
        /\ ~c.hf_token => (c.openai_api_key /\ AzureValues(c) = 0)}

\* variant: the deployment name is not looked at
using_azure_NoDeployment(c) == c.azure_api_key /\ c.azure_endpoint

\* app.py line 33, question_answering.py line 22
using_azure(c) == c.azure_api_key /\ c.azure_endpoint /\ c.azure_deployment

\* app.py line 34
has_credentials(c) == c.openai_api_key \/ using_azure(c)

\* the configuration of a program used as a library
LibraryConfig ==
    [openai_api_key |-> TRUE, azure_api_key |-> FALSE,
     azure_endpoint |-> FALSE, azure_deployment |-> FALSE, hf_token |-> TRUE]

(***************************************************************************)
(* Inputs.                                                                 *)
(***************************************************************************)
\* entries of a list handed to process_urls
RawEntries == {EntryBlank, EntryBare, EntryPadded, EntryHttps, EntryHttp}

\* texts typed into the text area, one URL per line
TypedTexts == {EntryBlank, EntryHttps, TextTwoLines}

\* all lists of 0..n elements of S
ListsUpTo(S, n) == UNION {[1..k -> S] : k \in 0..n}

\* components.py line 84: the radio button
ExtractionMethods == {"LangChain (Recommended)", "BeautifulSoup", "Try all methods"}

(***************************************************************************)
(* State.                                                                  *)
(***************************************************************************)
VARIABLES
    config,             \* credentials found in the environment
    mode,               \* "library": process_urls is called directly;
                        \* "app": the Streamlit application runs
    requests_left,      \* extraction requests the user may still make
    batch,              \* number of the current extraction request
    \* st.session_state
    urls_content, qa_chain, processed_urls, error_logs,
    \* history: the request each session value was stored by, and the
    \* requests process_callback returned True for
    content_batch, processed_batch, succeeded,
    \* what the page shows: outcome of the last extraction request and of
    \* the last click on Ask
    extract_shown, ask,
    \* history: the call of create_vector_store made for the last request
    indexing,
    \* the running call of process_urls
    pc, caller, urls, use_langchain, clean_urls, contents,
    has_valid_content, idx, result,
    \* history: the extractor calls made by the running call, in order, and
    \* what the last of them was given by the network and returned
    calls, last

session_vars ==
    <<urls_content, qa_chain, processed_urls, error_logs,
      content_batch, processed_batch, succeeded, extract_shown, ask,
      indexing>>

call_vars ==
    <<pc, caller, urls, use_langchain, clean_urls, contents,
      has_valid_content, idx, result, calls, last>>

vars ==
    <<config, mode, requests_left, batch, session_vars, call_vars>>

NoChain == [batch |-> 0, backend |-> "none"]

NoAsk == [clicked |-> FALSE, question |-> FALSE, chain |-> NoChain,
          get_answer_called |-> FALSE, signal |-> "none"]

\* app.py lines 36-44, before any request
NoIndexing ==
    [called |-> FALSE, documents |-> <<>>, raised |-> FALSE,
     embedding_client_calls |-> 0, index_calls |-> 0]

InitSession ==
    /\ indexing = NoIndexing
    /\ urls_content = EmptyDict
    /\ qa_chain = NoChain
    /\ processed_urls = <<>>
    /\ error_logs = <<>>
    /\ content_batch = 0
    /\ processed_batch = 0
    /\ succeeded = {}
    /\ extract_shown = "none"
    /\ ask = NoAsk

NoLast == [fn |-> "none"]

InitCall ==
    /\ pc = "idle"
    /\ caller = "none"
    /\ urls = <<>>
    /\ use_langchain = FALSE
    /\ clean_urls = <<>>
    /\ contents = EmptyDict
    /\ has_valid_content = FALSE
    /\ idx = 1
    /\ result = EmptyDict
    /\ calls = <<>>
    /\ last = NoLast

\* either process_urls is called once as a library function, or the
\* Streamlit application is started with some configuration
Init ==
    /\ InitSession
    /\ InitCall
    /\ batch = 0
    /\ \/ /\ config = LibraryConfig
          /\ mode = "library"
          /\ requests_left = 0
       \/ /\ config \in Configs
          /\ mode = "app"
          /\ requests_left = MaxRequests

(***************************************************************************)
(* process_urls, one action per step of the cascade.                       *)
(***************************************************************************)
\* an entry of calls: the extractor, its arguments, whether it raised, and
\* whether process_urls found usable content in what it returned
Call(fn, args, raised, ok) ==
    [fn |-> fn, args |-> args, raised |-> raised, ok |-> ok]

Last(fn, args, loaded, raised, ret) ==
    [fn |-> fn, args |-> args, loaded |-> loaded, raised |-> raised, ret |-> ret]

\* The extractors catch the exceptions of their fetches themselves and
\* return an error string or an error document (the "error" answers of the
\* network above).  Raised is the other case process_urls provides for on
\* lines 62 and 76: an exception that comes out of the call of a
\* structure-preserving extractor.  extract_content_from_url is called
\* outside any handler (lines 81, 85) and is taken not to raise.
Raised == [kind |-> "raise"]

\* a new activation of process_urls(urls, use_langchain), line 22
Enter(from, list, langchain) ==
    /\ pc' = "normalize"
    /\ caller' = from
    /\ urls' = list
    /\ use_langchain' = langchain
    /\ clean_urls' = <<>>
    /\ contents' = EmptyDict
    /\ has_valid_content' = FALSE
    /\ idx' = 1
    /\ result' = EmptyDict
    /\ calls' = <<>>
    /\ last' = NoLast

\* process_urls called directly
CallProcessUrls ==
    /\ mode = "library"
    /\ pc = "idle"
    /\ \E list \in ListsUpTo(RawEntries, MaxUrls), langchain \in BOOLEAN :
           Enter("direct", list, langchain)
    /\ UNCHANGED <<config, mode, requests_left, batch, session_vars>>

\* lines 24-36: clean the URLs and choose the path
Normalize ==
    /\ pc = "normalize"
    /\ clean_urls' = CleanUrls(urls)
    /\ pc' = IF UseLangchainPath(use_langchain, clean_urls') THEN "batch"
             ELSE IF clean_urls' = <<>> THEN "final"
             ELSE "simple"
    /\ UNCHANGED <<caller, urls, use_langchain, contents, has_valid_content,
                   idx, result, calls, last>>
    /\ UNCHANGED <<config, mode, requests_left, batch, session_vars>>

\* lines 39-52 and 76-78: the batch extractor and the check of its documents
BatchStep ==
    /\ pc = "batch"
    /\ \E loaded \in AsyncHtmlLoads(clean_urls) \cup {Raised} :
         IF loaded = Raised
         THEN /\ calls' = Append(calls, Call("extract_content_with_html2text",
                                             clean_urls, TRUE, FALSE))
              /\ last' = Last("extract_content_with_html2text", clean_urls,
                              loaded, TRUE, <<>>)
              /\ pc' = OnBatchRaise
              /\ UNCHANGED <<contents, has_valid_content>>
         ELSE LET docs == extract_content_with_html2text(clean_urls, loaded)
              IN  /\ contents' = StoreBatchDocs(contents, docs)
                  /\ has_valid_content' =
                         (\E i \in 1..Len(docs) : BatchDocUsable(docs[i]))
                  /\ calls' = Append(calls, Call("extract_content_with_html2text",
                                                 clean_urls, FALSE,
                                                 has_valid_content'))
                  /\ last' = Last("extract_content_with_html2text", clean_urls,
                                  loaded, FALSE, docs)
                  /\ pc' = AfterBatch(has_valid_content')
    /\ idx' = 1
    /\ UNCHANGED <<caller, urls, use_langchain, clean_urls, result>>
    /\ UNCHANGED <<config, mode, requests_left, batch, session_vars>>

\* the loop "for url in clean_urls" moves on, or ends and control goes to after
NextUrl(after) ==
    IF idx < Len(clean_urls)
    THEN idx' = idx + 1 /\ pc' = pc
    ELSE idx' = 1 /\ pc' = after

\* lines 54-66 and 76-78: one iteration of the single-URL pass
SingleStep ==
    /\ pc = "single"
    /\ LET url == clean_urls[idx] IN
       \E loaded \in WebBaseLoads(url) \cup {Raised} :
         IF loaded = Raised
         THEN /\ calls' = Append(calls, Call("extract_content_with_langchain",
                                             <<url>>, TRUE, FALSE))
              /\ last' = Last("extract_content_with_langchain", <<url>>,
                              loaded, TRUE, <<>>)
              /\ UNCHANGED <<contents, has_valid_content>>
              /\ IF OnSingleRaise = "single"
                 THEN NextUrl(AfterSingle(has_valid_content'))
                 ELSE idx' = 1 /\ pc' = OnSingleRaise
         ELSE LET docs == extract_content_with_langchain(url, loaded)
              IN  /\ calls' = Append(calls, Call("extract_content_with_langchain",
                                                 <<url>>, FALSE,
                                                 SingleDocsUsable(docs)))
                  /\ last' = Last("extract_content_with_langchain", <<url>>,
                                  loaded, FALSE, docs)
                  /\ IF SingleDocsUsable(docs)
                     THEN /\ contents' = DictSet(contents, url, docs[1].page_content)
                          /\ has_valid_content' = TRUE
                     ELSE UNCHANGED <<contents, has_valid_content>>
                  /\ NextUrl(AfterSingle(has_valid_content'))
    /\ UNCHANGED <<caller, urls, use_langchain, clean_urls, result>>
    /\ UNCHANGED <<config, mode, requests_left, batch, session_vars>>

\* lines 68-74: one iteration of the fall back to the simple extractor
FallbackStep ==
    /\ pc = "fallback"
    /\ LET url == clean_urls[idx] IN
       \E response \in Responses :
         LET content == extract_content_from_url(url, response)
         IN  /\ calls' = Append(calls, Call("extract_content_from_url", <<url>>,
                                            FALSE, ~IsError(content)))
             /\ last' = Last("extract_content_from_url", <<url>>, response,
                             FALSE, content)
             /\ IF ~IsError(content)
                THEN /\ contents' = DictSet(contents, url, content)
                     /\ has_valid_content' = TRUE
                ELSE UNCHANGED <<contents, has_valid_content>>
    /\ NextUrl("final")
    /\ UNCHANGED <<caller, urls, use_langchain, clean_urls, result>>
    /\ UNCHANGED <<config, mode, requests_left, batch, session_vars>>

\* the statement contents[url] = extract_content_from_url(url) of lines 81, 85
StoreSimple ==
    LET url == clean_urls[idx] IN
    \E response \in Responses :
      LET content == extract_content_from_url(url, response)
      IN  /\ calls' = Append(calls, Call("extract_content_from_url", <<url>>,
                                         FALSE, ~IsError(content)))
          /\ last' = Last("extract_content_from_url", <<url>>, response,
                          FALSE, content)
          /\ contents' = DictSet(contents, url, content)

\* lines 76-81: one iteration of the except handler's loop
ExceptStep ==
    /\ pc = "except"
    /\ StoreSimple
    /\ NextUrl("final")
    /\ UNCHANGED <<caller, urls, use_langchain, clean_urls, has_valid_content, result>>
    /\ UNCHANGED <<config, mode, requests_left, batch, session_vars>>

\* lines 82-85: one iteration of the simple strategy
SimpleStep ==
    /\ pc = "simple"
    /\ StoreSimple
    /\ NextUrl("final")
    /\ UNCHANGED <<caller, urls, use_langchain, clean_urls, has_valid_content, result>>
    /\ UNCHANGED <<config, mode, requests_left, batch, session_vars>>

\* lines 87-100: valid_contents (ValidContents) is built for the log only;
\* what is returned is contents
Return ==
    /\ pc = "final"
    /\ result' = ReturnValue(contents)
    /\ pc' = "done"
    /\ last' = NoLast
    /\ UNCHANGED <<caller, urls, use_langchain, clean_urls, contents,
                   has_valid_content, idx, calls>>
    /\ UNCHANGED <<config, mode, requests_left, batch, session_vars>>

(***************************************************************************)
(* websage/models: building the index and the question-answering chain.    *)
(***************************************************************************)
\* embeddings.py lines 16-44; service is what the embedding service and FAISS
\* answer
\* variant: the token is looked at after the client is built
create_vector_store_ClientFirst(c, documents, service) ==
    IF ~c.hf_token \/ service = "client_error"
    THEN [raised |-> TRUE, error |-> "No embeddings service available",
          embedding_client_calls |-> 1, index_calls |-> 0]
    ELSE IF service = "index_error"
    THEN [raised |-> TRUE, error |-> "embedding request failed",
          embedding_client_calls |-> 1, index_calls |-> 1]
    ELSE [raised |-> FALSE, error |-> "",
          embedding_client_calls |-> 1, index_calls |-> 1]

\* embeddings.py lines 16-44; service is what the construction of the
\* embedding client (lines 32-37) and FAISS.from_documents (line 43) answer
create_vector_store(c, documents, service) ==
    IF ~c.hf_token
    THEN [raised |-> TRUE, error |-> "No embeddings service available",
          embedding_client_calls |-> 0, index_calls |-> 0]
    ELSE IF service = "client_error"
    THEN [raised |-> TRUE, error |-> "Error initializing embeddings",
          embedding_client_calls |-> 1, index_calls |-> 0]
    ELSE IF service = "index_error"
    THEN [raised |-> TRUE, error |-> "embedding request failed",
          embedding_client_calls |-> 1, index_calls |-> 1]
    ELSE [raised |-> FALSE, error |-> "",
          embedding_client_calls |-> 1, index_calls |-> 1]

\* the record of a call of create_vector_store
Indexed(documents, vector_store) ==
    [called |-> TRUE, documents |-> documents,
     raised |-> vector_store.raised,
     embedding_client_calls |-> vector_store.embedding_client_calls,
     index_calls |-> vector_store.index_calls]

\* question_answering.py lines 24-76; client is what the construction of the
\* chat model client answers
setup_qa_system(c, n, client) ==
    IF client = "error"
    THEN [raised |-> TRUE, error |-> "chat model client failed",
          chain |-> NoChain]
    ELSE [raised |-> FALSE, error |-> "",
          chain |-> [batch |-> n,
                     backend |-> IF using_azure(c) THEN "azure" ELSE "openai"]]

(***************************************************************************)
(* The Streamlit page: websage/web/components.py and app.py.               *)
(***************************************************************************)
\* components.py lines 93-114: a click on "Extract Content"
ExtractRequest ==
    /\ mode = "app"
    /\ pc = "idle"
    /\ requests_left > 0
    /\ has_credentials(config)
    /\ \E urls_input \in TypedTexts, method \in ExtractionMethods :
         /\ urls_input # <<>>
         /\ Enter("ui", Split(Strip(urls_input), NL),
                  method \in {"LangChain (Recommended)", "Try all methods"})
    /\ error_logs' = <<>>
    /\ extract_shown' = "processing"
    /\ ask' = NoAsk
    /\ indexing' = NoIndexing
    /\ batch' = batch + 1
    /\ requests_left' = requests_left - 1
    /\ UNCHANGED <<config, mode, urls_content, qa_chain, processed_urls,
                   content_batch, processed_batch, succeeded>>

\* app.py lines 46-93 and components.py lines 116-131: the callback on the
\* result of process_urls and the message shown for what it returns
\* (line 69 hands the documents to split_documents, which leaves the
\* cutting to RecursiveCharacterTextSplitter; what create_vector_store is
\* given is recorded here as the documents the segments are cut from)
ProcessCallback ==
    /\ pc = "done"
    /\ caller = "ui"
    /\ urls_content' = result
    /\ content_batch' = batch
    /\ LET documents == create_documents_from_contents(result) IN
       IF documents = <<>>
       THEN /\ extract_shown' = "failure"
            /\ UNCHANGED <<qa_chain, processed_urls, processed_batch,
                           succeeded, error_logs, indexing>>
       ELSE \E service \in {"ok", "client_error", "index_error"},
               client \in {"ok", "error"} :
              LET vector_store == create_vector_store(config, documents, service)
                  qa == setup_qa_system(config, batch, client)
              IN  /\ indexing' = Indexed(documents, vector_store)
                  /\ IF vector_store.raised
                     THEN /\ error_logs' = Append(error_logs, vector_store.error)
                          /\ extract_shown' = "failure"
                          /\ UNCHANGED <<qa_chain, processed_urls,
                                         processed_batch, succeeded>>
                     ELSE IF qa.raised
                     THEN /\ error_logs' = Append(error_logs, qa.error)
                          /\ extract_shown' = "failure"
                          /\ UNCHANGED <<qa_chain, processed_urls,
                                         processed_batch, succeeded>>
                     ELSE /\ qa_chain' = qa.chain
                          /\ processed_urls' = DictKeys(urls_content')
                          /\ processed_batch' = batch
                          /\ succeeded' = succeeded \cup {batch}
                          /\ extract_shown' = "success"
                          /\ UNCHANGED error_logs
    \* the activation of process_urls is over
    /\ pc' = "idle"
    /\ caller' = "none"
    /\ urls' = <<>>
    /\ use_langchain' = FALSE
    /\ clean_urls' = <<>>
    /\ contents' = EmptyDict
    /\ has_valid_content' = FALSE
    /\ idx' = 1
    /\ result' = EmptyDict
    /\ calls' = <<>>
    /\ last' = NoLast
    /\ UNCHANGED <<config, mode, requests_left, batch, ask>>

\* variant: the chain is not checked
AskAnswers_NoChainCheck(clicked, question, chain) ==
    clicked /\ question

\* components.py line 157: get_answer is called
AskAnswers(clicked, question, chain) ==
    clicked /\ question /\ chain # NoChain

\* components.py lines 144-185: a run of the page with the Ask button
\* clicked or not and the question box filled or not.  The button is drawn
\* disabled while there is no chain; qa_section still tests the chain when
\* the button reports a click, and the click is an input here whatever the
\* button looks like.
Ask ==
    /\ mode = "app"
    /\ pc = "idle"
    /\ \E clicked \in BOOLEAN, question \in BOOLEAN :
         ask' = [clicked |-> clicked,
                 question |-> question,
                 chain |-> qa_chain,
                 get_answer_called |-> AskAnswers(clicked, question, qa_chain),
                 signal |-> IF AskAnswers(clicked, question, qa_chain)
                            THEN "answer"
                            ELSE IF clicked /\ qa_chain = NoChain
                            THEN "extract content first"
                            ELSE "none"]
    /\ UNCHANGED <<urls_content, qa_chain, processed_urls, error_logs,
                   content_batch, processed_batch, succeeded, extract_shown,
                   indexing>>
    /\ UNCHANGED <<config, mode, requests_left, batch, call_vars>>

Next ==
    \/ CallProcessUrls
    \/ Normalize
    \/ BatchStep
    \/ SingleStep
    \/ FallbackStep
    \/ ExceptStep
    \/ SimpleStep
    \/ Return
    \/ ExtractRequest
    \/ ProcessCallback
    \/ Ask

Spec == Init /\ [][Next]_vars

(***************************************************************************)
(* Properties.                                                             *)
(***************************************************************************)
FnBatch == "extract_content_with_html2text"
FnSingle == "extract_content_with_langchain"
FnSimple == "extract_content_from_url"

Range(s) == {s[i] : i \in 1..Len(s)}

\* the normalized form of the input list: the non-blank entries, trimmed,
\* with https:// put before those that have no http:// or https:// scheme
HasScheme(u) == StartsWith(u, HttpScheme) \/ StartsWith(u, HttpsScheme)

NormalizedUrl(entry) ==
    IF HasScheme(Strip(entry)) THEN Strip(entry) ELSE HttpsScheme \o Strip(entry)

IsNonBlank(entry) == Strip(entry) # <<>>

NormalizedList(list) ==
    LET kept == SelectSeq(list, IsNonBlank)
    IN  [i \in 1..Len(kept) |-> NormalizedUrl(kept[i])]

\* process_urls has run to its end
Finished == pc \in {"final", "done"}

\* the batch extractor returned and none of its documents was usable
BatchReturnedNothing ==
    calls # <<>> /\ calls[1].fn = FnBatch /\ ~calls[1].raised /\ ~calls[1].ok

\* the batch extractor raised
BatchRaised ==
    calls # <<>> /\ calls[1].fn = FnBatch /\ calls[1].raised

\* calls k+1 .. k+n are the single-URL extractor on each normalized URL
SinglePassAt(k) ==
    /\ Len(calls) >= k + Len(clean_urls)
    /\ \A i \in 1..Len(clean_urls) :
          calls[k + i].fn = FnSingle /\ calls[k + i].args = <<clean_urls[i]>>

\* calls k+1 .. k+n are the simple extractor on each normalized URL, and
\* they are the last calls
SimplePassAt(k) ==
    /\ Len(calls) = k + Len(clean_urls)
    /\ \A i \in 1..Len(clean_urls) :
          calls[k + i].fn = FnSimple /\ calls[k + i].args = <<clean_urls[i]>>

\* C1: the mapping returned by process_urls has no entry whose content
\* begins with "Error".
ReturnedMappingHasNoErrorEntry ==
    pc = "done" => \A i \in 1..Len(result) : ~IsError(result[i].v)

\* C2: with the structure-preserving strategy, when the batch extractor
\* returned no usable document, the single-URL extractor is called on every
\* normalized URL before the first call of the simple extractor, the simple
\* extractor is called only if no single-URL call gave usable content, and
\* the single-URL pass is complete when process_urls ends.
SinglePassBeforeSimple ==
    BatchReturnedNothing =>
        /\ \A j \in 1..Len(calls) :
              calls[j].fn = FnSimple =>
                  /\ j > 1 + Len(clean_urls)
                  /\ SinglePassAt(1)
                  /\ \A i \in 1..(j - 1) : calls[i].fn = FnSingle => ~calls[i].ok
        /\ Finished => SinglePassAt(1)

SinglePassBeforeSimple_Witness ==
    /\ pc = "done"
    /\ BatchReturnedNothing
    /\ Len(clean_urls) = 2
    /\ \E j \in 1..Len(calls) : calls[j].fn = FnSimple

\* C3: for a non-empty input list, the keys of the returned mapping are
\* among the normalized input URLs.
KeysAreNormalizedInputs ==
    (pc = "done" /\ urls # <<>>) =>
        DictKeySet(result) \subseteq Range(NormalizedList(urls))

KeysAreNormalizedInputs_Witness ==
    /\ pc = "done"
    /\ use_langchain
    /\ urls = <<EntryBare, EntryPadded>>
    /\ calls[1].ok
    /\ Len(result) = 1

\* C4: no extractor is called before normalization; after it clean_urls is
\* the normalized form of the input list, and every URL passed to an
\* extractor is one of the normalized URLs.
NormalizedBeforeExtraction ==
    /\ pc \in {"idle", "normalize"} => calls = <<>>
    /\ pc \notin {"idle", "normalize"} => clean_urls = NormalizedList(urls)
    /\ \A i \in 1..Len(calls) :
          Range(calls[i].args) \subseteq Range(NormalizedList(urls))

NormalizedBeforeExtraction_Witness ==
    /\ pc = "done"
    /\ urls = <<EntryBlank, EntryPadded>>
    /\ calls # <<>>

\* C5 as stated: process_urls never raises, an exception of the batch step
\* is followed by the single-URL pass, and a single-URL pass in which every
\* call failed or raised is followed by the simple extractor.
ExceptionTriggersNextStep ==
    /\ pc # "raised"
    /\ (Finished /\ BatchRaised) =>
          \E j \in 1..Len(calls) : calls[j].fn = FnSingle
    /\ (Finished /\ BatchReturnedNothing
          /\ \A j \in 1..Len(calls) : calls[j].fn = FnSingle => ~calls[j].ok) =>
          \E j \in 1..Len(calls) : calls[j].fn = FnSimple

\* C5 (amended): process_urls never raises; an exception of the batch step
\* sends the cascade straight to the simple extractor, called once on every
\* normalized URL, and the single-URL extractor is not called; an exception
\* of a single-URL call does not end the single-URL pass, and when no call
\* of that pass gave usable content the simple extractor is called on every
\* normalized URL.
ExceptionFallsBackToSimple ==
    /\ pc # "raised"
    /\ (Finished /\ BatchRaised) => SimplePassAt(1)
    /\ (Finished /\ BatchReturnedNothing) =>
          /\ SinglePassAt(1)
          /\ (\A i \in 1..Len(clean_urls) : ~calls[1 + i].ok) =>
                 SimplePassAt(1 + Len(clean_urls))

ExceptionFallsBackToSimple_Witness ==
    /\ pc = "done"
    /\ BatchRaised
    /\ Len(clean_urls) = 2

\* C6: with the simple strategy the only calls are those of the simple
\* extractor, one per entry of the normalized list, in the order of the list.
SimpleStrategyCallsOnlySimple ==
    ~use_langchain =>
        /\ \A j \in 1..Len(calls) :
              /\ calls[j].fn = FnSimple
              /\ j <= Len(clean_urls)
              /\ calls[j].args = <<clean_urls[j]>>
        /\ Finished => Len(calls) = Len(clean_urls)

SimpleStrategyCallsOnlySimple_Witness ==
    /\ pc = "done"
    /\ ~use_langchain
    /\ Len(calls) = 2
    /\ calls[1].args # calls[2].args

\* C7: extract_content_from_url does not raise; it returns a message tagged
\* "Error extracting content from <url>", and not the page text, when the
\* request failed or the cleaned text has fewer than 10 characters, and the
\* cleaned text itself otherwise.
SimpleExtractorContract ==
    last.fn = FnSimple =>
        LET url     == last.args[1]
            fetched == last.loaded.kind = "ok"
            cleaned == IF fetched THEN CleanText(last.loaded.text) ELSE <<>>
            failed  == ~fetched \/ Len(cleaned) < MinContentLen
        IN  /\ ~last.raised
            /\ failed => /\ StartsWith(last.ret, MsgFrom \o url)
                         /\ last.ret # cleaned
                         /\ fetched => last.ret # last.loaded.text
            /\ ~failed => last.ret = cleaned

SimpleExtractorContract_Witness ==
    /\ last.fn = FnSimple
    /\ last.loaded.kind = "ok"
    /\ last.ret = CleanText(last.loaded.text)
    /\ last.ret # last.loaded.text

\* C8: extract_content_with_html2text never returns an empty list: it
\* returns the fetched documents that have at least 10 characters of
\* stripped text, in order, when there is one, and exactly one error
\* sentinel when there is none.
IsSentinel(doc) ==
    "error" \in DOMAIN doc.metadata /\ IsError(doc.page_content)

HasEnoughText(doc) == Len(Strip(doc.page_content)) >= MinContentLen

BatchExtractorContract ==
    (last.fn = FnBatch /\ ~last.raised) =>
        LET survivors == IF last.loaded.kind = "docs"
                         THEN SelectSeq(last.loaded.docs, HasEnoughText)
                         ELSE <<>>
        IN  /\ last.ret # <<>>
            /\ IF survivors = <<>>
               THEN Len(last.ret) = 1 /\ IsSentinel(last.ret[1])
               ELSE /\ last.ret = survivors
                    /\ \A i \in 1..Len(last.ret) :
                          HasEnoughText(last.ret[i]) /\ ~IsSentinel(last.ret[i])

BatchExtractorContract_Witness ==
    /\ last.fn = FnBatch
    /\ ~last.raised
    /\ last.loaded.kind = "docs"
    /\ Len(last.loaded.docs) = 2
    /\ Len(last.ret) = 1
    /\ ~IsSentinel(last.ret[1])

\* C9: between requests, urls_content, processed_urls and qa_chain were
\* stored by the same extraction request (or none of them was stored yet).
SessionValuesFromSameBatch ==
    pc = "idle" =>
        /\ content_batch = processed_batch
        /\ processed_batch = qa_chain.batch

\* C10: get_answer is called only with a chain built by an extraction
\* request that succeeded; a click on Ask while there is no chain shows the
\* "extract content first" warning and does not call get_answer; and there
\* is a chain only after a request succeeded.
AnswerOnlyAfterExtraction ==
    /\ ask.get_answer_called =>
          ask.chain # NoChain /\ ask.chain.batch \in succeeded
    /\ (ask.clicked /\ ask.chain = NoChain) =>
          ask.signal = "extract content first" /\ ~ask.get_answer_called
    /\ qa_chain # NoChain => qa_chain.batch \in succeeded
    /\ succeeded = {} => qa_chain = NoChain

AnswerOnlyAfterExtraction_Witness ==
    /\ ask.clicked
    /\ ask.question
    /\ ask.chain = NoChain
    /\ ask.signal = "extract content first"
    /\ batch >= 1

\* the URLs of a stored mapping that yielded usable content
UsableUrls(d) == {d[i].k : i \in {j \in 1..Len(d) : ~IsError(d[j].v)}}

\* C11: when a request yields usable content for at least one URL and
\* indexing succeeds, process_callback returns True and processed_urls holds
\* exactly the URLs that yielded usable content; when no URL yields usable
\* content, it returns False and the failure message is shown.
PartialSuccessKeepsUsableUrls ==
    (pc = "idle" /\ batch >= 1 /\ content_batch = batch) =>
        /\ (UsableUrls(urls_content) # {} /\ error_logs = <<>>) =>
              /\ extract_shown = "success"
              /\ Range(processed_urls) = UsableUrls(urls_content)
        /\ UsableUrls(urls_content) = {} => extract_shown = "failure"

\* the backend the configuration selects
SelectedBackend(c) ==
    IF AzureValues(c) = 3 THEN "azure"
    ELSE IF c.openai_api_key THEN "openai"
    ELSE "none"

\* C12: the backend is a function of which configuration values are set:
\* Azure only when its key, endpoint and deployment name are all set,
\* otherwise OpenAI when its key is set, otherwise none; and with no backend
\* no chain is ever built and get_answer is never called.
BackendFollowsConfiguration ==
    /\ qa_chain # NoChain => qa_chain.backend = SelectedBackend(config)
    /\ ask.chain # NoChain => ask.chain.backend = SelectedBackend(config)
    /\ SelectedBackend(config) = "none" =>
          /\ qa_chain = NoChain
          /\ ~ask.get_answer_called
          /\ ~indexing.called
          /\ succeeded = {}

BackendFollowsConfiguration_Witness ==
    /\ AzureValues(config) = 2
    /\ config.openai_api_key
    /\ qa_chain.backend = "openai"
    /\ ask.get_answer_called
    /\ ask.chain = qa_chain

\* C13: with no HUGGINGFACEHUB_API_TOKEN configured, create_vector_store
\* raises the configuration error without having called the embedding
\* client or the index library, whatever documents it is given.
NoTokenFailsBeforeAnyCall ==
    (indexing.called /\ ~config.hf_token) =>
        /\ indexing.raised
        /\ indexing.embedding_client_calls = 0
        /\ indexing.index_calls = 0
        /\ error_logs = <<"No embeddings service available">>
        /\ extract_shown \in {"failure", "processing"}

NoTokenFailsBeforeAnyCall_Witness ==
    /\ ~config.hf_token
    /\ indexing.called
    /\ indexing.raised
    /\ Len(indexing.documents) = 2
    /\ indexing.embedding_client_calls = 0

\* the batch extractor returned and at least one of its documents was usable
BatchYieldedContent ==
    calls # <<>> /\ calls[1].fn = FnBatch /\ ~calls[1].raised /\ calls[1].ok

\* the sources of the documents of the last call that are not error text
UsableSources ==
    {last.ret[i].metadata.source :
        i \in {j \in 1..Len(last.ret) : ~IsError(last.ret[j].page_content)}}

\* C15: with the structure-preserving strategy, once the batch extractor
\* yields usable content for at least one URL no other extractor is called
\* for any URL: the URLs the batch step had nothing usable for are not
\* retried and are not in the result.
BatchIsAllOrNothing ==
    BatchYieldedContent =>
        /\ Len(calls) = 1
        /\ Finished
        /\ pc = "final" =>
              /\ last.fn = FnBatch
              /\ DictKeySet(contents) = UsableSources
        /\ pc = "done" => result = contents

BatchIsAllOrNothing_Witness ==
    /\ BatchYieldedContent
    /\ pc = "final"
    /\ Len(clean_urls) = 2
    /\ clean_urls[1] # clean_urls[2]
    /\ clean_urls[1] \notin DictKeySet(contents)
    /\ clean_urls[2] \in DictKeySet(contents)

\* C16: text that begins with "Error" is taken for a failed extraction even
\* when it is the text of the page: no document is built for its URL and
\* nothing of it is handed to the index, with either strategy; in the
\* cascade it is not stored at all and does not count as usable content.
ErrorTextIsNotIndexed ==
    /\ indexing.called =>
          /\ \A i \in 1..Len(indexing.documents) :
                ~IsError(indexing.documents[i].page_content)
          /\ \A j \in 1..Len(urls_content) :
                IsError(urls_content[j].v) =>
                    \A i \in 1..Len(indexing.documents) :
                        indexing.documents[i].metadata.source # urls_content[j].k
    /\ (use_langchain /\ ~BatchRaised) =>
          \A j \in 1..Len(contents) : ~IsError(contents[j].v)
    /\ (last.fn = FnBatch /\ ~last.raised /\ UsableSources = {}) =>
          pc = "single" /\ ~has_valid_content

ErrorTextIsNotIndexed_Witness ==
    /\ indexing.called
    /\ Len(urls_content) = 2
    /\ urls_content[1].v = CleanText(SoupErrorText)
    /\ Len(indexing.documents) = 1
    /\ indexing.documents[1].metadata.source = urls_content[2].k
====
